---- MODULE Spec2Model ----
(***************************************************************************)
(* A model of src/src/lib.rs: the chunked voxel storage (Point3D, Chunk,   *)
(* Dimension, Volume) and the potential-map solver (get_djikstra_map).     *)
(*                                                                         *)
(* u32 values are modelled as integers modulo Modulus = 2^WordBits.  An    *)
(* arithmetic overflow has two outcomes, depending on how the crate is     *)
(* built: with overflow checks (the debug profile) it panics, without     *)
(* them (the release profile) it wraps.  The variable overflow_checks     *)
(* holds the build; every specification starts with either value.         *)
(***************************************************************************)
EXTENDS Integers, Sequences, FiniteSets, Bags, TLC

\* Width of the model's u32, in bits.
WordBits == 6
Modulus == 2 ^ WordBits
\* u32::max_value()
U32Max == Modulus - 1
U32 == 0 .. U32Max

CHUNK_X_SIZE == 16
CHUNK_Y_SIZE == 16
CHUNK_Z_SIZE == 16
CHUNK_VOLUME == CHUNK_X_SIZE * CHUNK_Y_SIZE * CHUNK_Z_SIZE

VARIABLES
    overflow_checks,   \* TRUE: overflow panics (debug); FALSE: it wraps (release)
    dim,               \* the Dimension: loaded_chunks, all_chunk_locations
    dim_call,          \* the last call on the Dimension and how it ended
    vol,               \* a Volume<u32> under test
    vol_sets,          \* the number of Volume::set calls made on vol
    vol_call,          \* the last call on vol and how it ended
    map,               \* get_djikstra_map: the Volume<Voxel> searched (voxel ids)
    weights,           \* get_djikstra_map: the seeds, a sequence of (location, cost)
    frontier,          \* the BinaryHeap<Node>, a bag of nodes
    visited,           \* the HashSet<Node>
    pops,              \* the number of nodes popped so far
    pc,                \* where get_djikstra_map is
    potential_map,     \* the Volume<u32> it returns
    first_result,      \* the field an earlier call on the same input returned
    chunk_state,       \* a Chunk<u32> under test
    chunk_call         \* the last call on chunk_state and how they ended

(***************************************************************************)
(* u32 arithmetic.  Each operation has a wrapped value and an overflow     *)
(* condition; callers decide between panic and wrap by overflow_checks.    *)
(***************************************************************************)
WrappingAdd(a, b) == (a + b) % Modulus
AddOverflows(a, b) == a + b > U32Max
WrappingSub(a, b) == (a - b + Modulus) % Modulus
SubOverflows(a, b) == a < b
WrappingMul(a, b) == (a * b) % Modulus
MulOverflows(a, b) == a * b > U32Max

(***************************************************************************)
(* Point3D                                                                 *)
(***************************************************************************)
Point3D(x, y, z) == [x |-> x, y |-> y, z |-> z]

Point3DAdd(a, b) ==
    Point3D(WrappingAdd(a.x, b.x), WrappingAdd(a.y, b.y), WrappingAdd(a.z, b.z))
Point3DAddOverflows(a, b) ==
    AddOverflows(a.x, b.x) \/ AddOverflows(a.y, b.y) \/ AddOverflows(a.z, b.z)

Point3DSub(a, b) ==
    Point3D(WrappingSub(a.x, b.x), WrappingSub(a.y, b.y), WrappingSub(a.z, b.z))
Point3DSubOverflows(a, b) ==
    SubOverflows(a.x, b.x) \/ SubOverflows(a.y, b.y) \/ SubOverflows(a.z, b.z)

(***************************************************************************)
(* Chunk<T>: voxels is the array [T; CHUNK_VOLUME], indexed from 0.        *)
(* extra_data plays no part in any operation modelled here.                *)
(***************************************************************************)
ChunkFromValue(value) == [voxels |-> [i \in 0 .. CHUNK_VOLUME - 1 |-> value]]

\* A variant without the stride of y.
ChunkGetIndexNoStride(location) ==
    location.z * CHUNK_X_SIZE * CHUNK_Y_SIZE + location.y + location.x

\* usize arithmetic on u32 components: no overflow on a 64-bit target.
ChunkGetIndex(location) ==
    location.z * CHUNK_X_SIZE * CHUNK_Y_SIZE + location.y * CHUNK_X_SIZE + location.x

\* Indexing the array panics when the index is not below CHUNK_VOLUME.
ChunkIndexFaults(location) == ChunkGetIndex(location) >= CHUNK_VOLUME

ChunkGet(chunk, location) == chunk.voxels[ChunkGetIndex(location)]

ChunkSet(chunk, location, value) ==
    [chunk EXCEPT !.voxels[ChunkGetIndex(location)] = value]

(***************************************************************************)
(* Dimension<T>                                                            *)
(***************************************************************************)
\* HashMap::insert replaces the value of a key that is present.
MapInsert(m, k, v) == [l \in DOMAIN m \cup {k} |-> IF l = k THEN v ELSE m[l]]
MapRemove(m, k) == [l \in DOMAIN m \ {k} |-> m[l]]
EmptyMap == [l \in {} |-> 0]

DimensionNew == [loaded_chunks |-> EmptyMap, all_chunk_locations |-> {}]

\* A variant that keeps the chunk already stored at the location.
add_chunk_in_place_keeps_old(d, location, chunk) ==
    [loaded_chunks |-> IF location \in DOMAIN d.loaded_chunks THEN d.loaded_chunks
                       ELSE MapInsert(d.loaded_chunks, location, chunk),
     all_chunk_locations |-> d.all_chunk_locations \cup {location}]

\* A variant that stores the chunk without marking the location defined.
add_chunk_in_place_loads_only(d, location, chunk) ==
    [loaded_chunks |-> MapInsert(d.loaded_chunks, location, chunk),
     all_chunk_locations |-> d.all_chunk_locations]

add_chunk_in_place(d, location, chunk) ==
    [loaded_chunks |-> MapInsert(d.loaded_chunks, location, chunk),
     all_chunk_locations |-> d.all_chunk_locations \cup {location}]

\* A variant that forgets to drop the loaded chunk.
remove_chunk_in_place_keeps_loaded(d, location) ==
    [loaded_chunks |-> d.loaded_chunks,
     all_chunk_locations |-> d.all_chunk_locations \ {location}]

remove_chunk_in_place(d, location) ==
    [loaded_chunks |-> MapRemove(d.loaded_chunks, location),
     all_chunk_locations |-> d.all_chunk_locations \ {location}]

chunk_loaded(d, location) == location \in DOMAIN d.loaded_chunks

chunk_defined(d, location) == location \in d.all_chunk_locations

\* The body of load_chunk is a TODO: it changes nothing.
load_chunk(d, location) == d

NoChunk == <<>>

\* A variant that hands out a default chunk for an undefined location.
get_chunk_defaulting(d, location) ==
    IF location \in DOMAIN d.loaded_chunks
    THEN [dim |-> d, outcome |-> "ok", loads |-> 0, chunk |-> <<d.loaded_chunks[location]>>]
    ELSE [dim |-> [d EXCEPT !.loaded_chunks = MapInsert(@, location, ChunkFromValue(0))],
          outcome |-> "ok", loads |-> 1, chunk |-> <<ChunkFromValue(0)>>]

\* get_chunk: the Dimension afterwards, how the call ended, the number of
\* load_chunk calls it made and the chunk it returned (a one-element sequence).
get_chunk(d, location) ==
    IF ~chunk_defined(d, location)
    THEN [dim |-> d, outcome |-> "panic: chunk undefined", loads |-> 0, chunk |-> NoChunk]
    ELSE LET loading == ~chunk_loaded(d, location)
             d2 == IF loading THEN load_chunk(d, location) ELSE d
             n == IF loading THEN 1 ELSE 0
         IN  IF location \in DOMAIN d2.loaded_chunks
             THEN [dim |-> d2, outcome |-> "ok", loads |-> n,
                   chunk |-> <<d2.loaded_chunks[location]>>]
             ELSE [dim |-> d2, outcome |-> "panic: unwrap on None", loads |-> n,
                   chunk |-> NoChunk]

get_chunk_location(location) ==
    Point3D(location.x \div CHUNK_X_SIZE, location.y \div CHUNK_Y_SIZE,
            location.z \div CHUNK_Z_SIZE)

\* A variant that takes the x component from y and the y component from x.
get_voxel_location_swapped(location) ==
    Point3D(location.y % CHUNK_X_SIZE, location.x % CHUNK_Y_SIZE,
            location.z % CHUNK_Z_SIZE)

get_voxel_location(location) ==
    Point3D(location.x % CHUNK_X_SIZE, location.y % CHUNK_Y_SIZE,
            location.z % CHUNK_Z_SIZE)

NoValue == <<>>

\* get_voxel: get_chunk of the chunk location, then Chunk::get of the voxel
\* location (whose components are below 16, so the index is in range).
get_voxel(d, location) ==
    LET r == get_chunk(d, get_chunk_location(location))
    IN  [dim |-> r.dim, outcome |-> r.outcome, loads |-> r.loads,
         value |-> IF r.outcome = "ok"
                   THEN <<ChunkGet(r.chunk[1], get_voxel_location(location))>>
                   ELSE NoValue]

(***************************************************************************)
(* Volume<T>: voxels is a Vec, indexed from 0.                             *)
(***************************************************************************)
\* Vec::len
VecLen(a) == Cardinality(DOMAIN a)

\* Volume::new: the extents are u32 differences, the length their u32
\* product.
VolumeNewOverflows(start_location, end_location) ==
    LET x_size == WrappingSub(end_location.x, start_location.x)
        y_size == WrappingSub(end_location.y, start_location.y)
        z_size == WrappingSub(end_location.z, start_location.z)
    IN  \/ SubOverflows(end_location.x, start_location.x)
        \/ SubOverflows(end_location.y, start_location.y)
        \/ SubOverflows(end_location.z, start_location.z)
        \/ MulOverflows(x_size, y_size)
        \/ MulOverflows(WrappingMul(x_size, y_size), z_size)

VolumeNew(start_location, end_location, value) ==
    LET x_size == WrappingSub(end_location.x, start_location.x)
        y_size == WrappingSub(end_location.y, start_location.y)
        z_size == WrappingSub(end_location.z, start_location.z)
        len == WrappingMul(WrappingMul(x_size, y_size), z_size)
    IN  [start_location |-> start_location, end_location |-> end_location,
         x_size |-> x_size, y_size |-> y_size, z_size |-> z_size,
         voxels |-> [i \in 0 .. len - 1 |-> value]]

\* get_index: z * x_size * y_size + y * x_size + x, in u32.
get_index(v, location) ==
    WrappingAdd(
        WrappingAdd(WrappingMul(WrappingMul(location.z, v.x_size), v.y_size),
                    WrappingMul(location.y, v.x_size)),
        location.x)

get_index_overflows(v, location) ==
    \/ MulOverflows(location.z, v.x_size)
    \/ MulOverflows(WrappingMul(location.z, v.x_size), v.y_size)
    \/ MulOverflows(location.y, v.x_size)
    \/ AddOverflows(WrappingMul(WrappingMul(location.z, v.x_size), v.y_size),
                    WrappingMul(location.y, v.x_size))
    \/ AddOverflows(
           WrappingAdd(WrappingMul(WrappingMul(location.z, v.x_size), v.y_size),
                       WrappingMul(location.y, v.x_size)),
           location.x)

\* get_location: z = i / (x_size * y_size), y = i % (x_size * y_size),
\* x = i % y_size, as the source has it.
get_location(v, index) ==
    Point3D(index % v.y_size,
            index % WrappingMul(v.x_size, v.y_size),
            index \div WrappingMul(v.x_size, v.y_size))

get_location_outcome(v, index) ==
    IF overflow_checks /\ MulOverflows(v.x_size, v.y_size) THEN "panic: overflow"
    ELSE IF WrappingMul(v.x_size, v.y_size) = 0 \/ v.y_size = 0
         THEN "panic: divide by zero"
         ELSE "ok"

within_bounds(v, location) == get_index(v, location) < VecLen(v.voxels)

within_bounds_outcome(v, location) ==
    IF overflow_checks /\ get_index_overflows(v, location) THEN "panic: overflow"
    ELSE "ok"

\* Volume::get and Volume::set index the Vec, which panics out of range.
volume_access_outcome(v, location) ==
    IF overflow_checks /\ get_index_overflows(v, location) THEN "panic: overflow"
    ELSE IF get_index(v, location) >= VecLen(v.voxels) THEN "panic: index out of bounds"
         ELSE "ok"

volume_get(v, location) == v.voxels[get_index(v, location)]

volume_set(v, location, value) ==
    [v EXCEPT !.voxels[get_index(v, location)] = value]

(***************************************************************************)
(* Voxel, Node, is_traversable and the steps of get_djikstra_map           *)
(***************************************************************************)
\* Voxel::get_type().solid: ids 0 (unknown) and 3 (stone) are solid, 1 (air)
\* and 2 (water) are not; any other id panics.
voxel_solid(id) == id \in {0, 3}
material_undefined(id) == id \notin 0 .. 3

Node(location, cost) == [location |-> location, cost |-> cost]

location_underneath(location) ==
    Point3D(location.x, location.y, WrappingSub(location.z, 1))

\* The && chain of is_traversable, evaluated left to right.
is_traversable(m, location) ==
    /\ within_bounds(m, location)
    /\ within_bounds(m, location_underneath(location))
    /\ ~voxel_solid(volume_get(m, location))
    /\ voxel_solid(volume_get(m, location_underneath(location)))

is_traversable_panics(m, location) ==
    \/ /\ overflow_checks
       /\ \/ SubOverflows(location.z, 1)
          \/ get_index_overflows(m, location)
          \/ /\ within_bounds(m, location)
             /\ get_index_overflows(m, location_underneath(location))
    \/ /\ within_bounds(m, location)
       /\ within_bounds(m, location_underneath(location))
       /\ \/ material_undefined(volume_get(m, location))
          \/ /\ ~voxel_solid(volume_get(m, location))
             /\ material_undefined(volume_get(m, location_underneath(location)))

\* The six neighbours, in the order of the array literal.
Neighbours(location) ==
    <<Point3DSub(location, Point3D(1, 0, 0)), Point3DAdd(location, Point3D(1, 0, 0)),
      Point3DSub(location, Point3D(0, 1, 0)), Point3DAdd(location, Point3D(0, 1, 0)),
      Point3DSub(location, Point3D(0, 0, 1)), Point3DAdd(location, Point3D(0, 0, 1))>>

NeighboursOverflow(location) ==
    \/ Point3DSubOverflows(location, Point3D(1, 0, 0))
    \/ Point3DAddOverflows(location, Point3D(1, 0, 0))
    \/ Point3DSubOverflows(location, Point3D(0, 1, 0))
    \/ Point3DAddOverflows(location, Point3D(0, 1, 0))
    \/ Point3DSubOverflows(location, Point3D(0, 0, 1))
    \/ Point3DAddOverflows(location, Point3D(0, 0, 1))

\* BinaryHeap::pop with Node's Ord: a node of least cost; among nodes of equal
\* cost the hash decides, which is modelled as any of them.
PopCandidates(heap) ==
    {n \in BagToSet(heap) : \A o \in BagToSet(heap) : n.cost <= o.cost}

\* visited.iter().find(|x| &x.location == location).is_some()
LocationVisited(settled, location) == \E n \in settled : n.location = location

\* The neighbours of the popped node that are pushed: traversable and with no
\* node of that location in visited (which already holds the popped node).
PushedLocations(m, settled, current_node) ==
    {l \in {Neighbours(current_node.location)[i] : i \in 1 .. 6} :
        is_traversable(m, l) /\ ~LocationVisited(settled, l)}

ExpandPanics(m, settled, current_node) ==
    \/ overflow_checks /\ NeighboursOverflow(current_node.location)
    \/ \E i \in 1 .. 6 : is_traversable_panics(m, Neighbours(current_node.location)[i])
    \/ /\ overflow_checks
       /\ PushedLocations(m, settled, current_node) # {}
       /\ AddOverflows(current_node.cost, 1)

\* The costs the nodes of visited would write at a flat index of the field.
CostsAt(field, settled, index) ==
    {n.cost : n \in {o \in settled : get_index(field, o.location) = index}}

\* The loop over visited.iter(): the iteration order of a HashSet is not
\* fixed, so where several nodes write the same index any of them may be
\* the last.  The fields the loop can leave, given that no write panics.
WrittenFields(field, settled) ==
    LET contested == {i \in DOMAIN field.voxels : Cardinality(CostsAt(field, settled, i)) > 1}
        costs == {n.cost : n \in settled}
    IN  {[field EXCEPT !.voxels =
              [i \in DOMAIN field.voxels |->
                  IF i \in contested THEN last[i]
                  ELSE IF CostsAt(field, settled, i) = {} THEN field.voxels[i]
                  ELSE CHOOSE c \in CostsAt(field, settled, i) : TRUE]] :
          last \in {f \in [contested -> costs] :
                       \A i \in contested : f[i] \in CostsAt(field, settled, i)}}

WritePanics(field, settled) ==
    \E n \in settled : volume_access_outcome(field, n.location) # "ok"

SolverVars == <<map, weights, frontier, visited, pops, pc, potential_map, first_result>>

ChunkVars == <<chunk_state, chunk_call>>

(***************************************************************************)
(* Values of the variables a specification does not use.                   *)
(***************************************************************************)
Origin == Point3D(0, 0, 0)

VolCall(op, location, index, value, outcome, result) ==
    [op |-> op, location |-> location, index |-> index, value |-> value,
     outcome |-> outcome, result |-> result]

VolIdle ==
    /\ vol = VolumeNew(Origin, Origin, 0)
    /\ vol_sets = 0
    /\ vol_call = VolCall("idle", Origin, 0, 0, "ok", NoValue)

SolverIdle ==
    /\ map = VolumeNew(Origin, Origin, 0)
    /\ weights = <<>>
    /\ frontier = EmptyBag
    /\ visited = {}
    /\ pops = 0
    /\ pc = "idle"
    /\ potential_map = VolumeNew(Origin, Origin, 0)
    /\ first_result = <<>>

DimIdle ==
    /\ dim = DimensionNew
    /\ dim_call = [op |-> "idle", location |-> Origin, chunk |-> NoChunk,
                   outcome |-> "ok", loads |-> 0, result |-> NoValue]

\* A call on the Chunk: sets is the number of Chunk::set calls made so far.
ChunkCall(op, location, value, outcome, result, sets) ==
    [op |-> op, location |-> location, value |-> value, outcome |-> outcome,
     result |-> result, sets |-> sets]

\* No Chunk is under test.
ChunkIdle ==
    /\ chunk_state = NoChunk
    /\ chunk_call = ChunkCall("idle", Origin, 0, "ok", NoValue, 0)

(***************************************************************************)
(* The Dimension as a state machine: Dimension::new(), then any sequence   *)
(* of calls.  A panic ends the run.                                        *)
(***************************************************************************)
\* Largest x of a chunk location the calls are made with.
MaxChunkX == 1
ChunkLocations == {Point3D(x, 0, 0) : x \in 0 .. MaxChunkX}

\* Chunks handed to add_chunk_in_place: two uniform ones and one with a
\* single voxel written by Chunk::set.
ChunkInputs ==
    {ChunkFromValue(1), ChunkFromValue(2),
     ChunkSet(ChunkFromValue(1), Point3D(3, 2, 1), 3)}

\* Global locations read by get_voxel: in chunks (0,0,0) and (1,0,0), and one
\* in chunk (0,1,0), which no call defines.
GlobalLocations ==
    {Point3D(x, y, z) : x \in {0, 3, 16, 19}, y \in {0, 2}, z \in {0, 1}}
        \cup {Point3D(3, 18, 1)}

DimCall(op, location, chunk, outcome, loads, result) ==
    [op |-> op, location |-> location, chunk |-> chunk, outcome |-> outcome,
     loads |-> loads, result |-> result]

DimRunning == dim_call.outcome = "ok"

DimInit ==
    /\ overflow_checks \in BOOLEAN
    /\ dim = DimensionNew
    /\ dim_call = DimCall("new", Point3D(0, 0, 0), NoChunk, "ok", 0, NoValue)
    /\ VolIdle
    /\ SolverIdle
    /\ ChunkIdle

AddChunkInPlace ==
    \E location \in ChunkLocations, chunk \in ChunkInputs :
        /\ DimRunning
        /\ dim' = add_chunk_in_place(dim, location, chunk)
        /\ dim_call' = DimCall("add_chunk_in_place", location, <<chunk>>, "ok", 0, NoValue)
        /\ UNCHANGED <<overflow_checks, vol, vol_sets, vol_call, SolverVars, ChunkVars>>

RemoveChunkInPlace ==
    \E location \in ChunkLocations :
        /\ DimRunning
        /\ dim' = remove_chunk_in_place(dim, location)
        /\ dim_call' = DimCall("remove_chunk_in_place", location, NoChunk, "ok", 0, NoValue)
        /\ UNCHANGED <<overflow_checks, vol, vol_sets, vol_call, SolverVars, ChunkVars>>

GetChunk ==
    \E location \in ChunkLocations :
        /\ DimRunning
        /\ LET r == get_chunk(dim, location)
           IN  /\ dim' = r.dim
               /\ dim_call' = DimCall("get_chunk", location, NoChunk, r.outcome, r.loads, r.chunk)
        /\ UNCHANGED <<overflow_checks, vol, vol_sets, vol_call, SolverVars, ChunkVars>>

GetVoxel ==
    \E location \in GlobalLocations :
        /\ DimRunning
        /\ LET r == get_voxel(dim, location)
           IN  /\ dim' = r.dim
               /\ dim_call' = DimCall("get_voxel", location, NoChunk, r.outcome, r.loads, r.value)
        /\ UNCHANGED <<overflow_checks, vol, vol_sets, vol_call, SolverVars, ChunkVars>>

DimNext == AddChunkInPlace \/ RemoveChunkInPlace \/ GetChunk \/ GetVoxel

(***************************************************************************)
(* Addressing: a global location is split by get_chunk_location and then   *)
(* by get_voxel_location, the two calls get_voxel makes.                   *)
(***************************************************************************)
\* Global locations that are split: every x, and y and z on both sides of a
\* chunk boundary and at the largest u32.
AddressedLocations ==
    {Point3D(x, y, z) : x \in U32,
                        y \in {0, CHUNK_Y_SIZE - 1, CHUNK_Y_SIZE, U32Max},
                        z \in {0, CHUNK_Z_SIZE + 1, U32Max}}

AddrInit ==
    /\ overflow_checks \in BOOLEAN
    /\ dim = DimensionNew
    /\ \E location \in AddressedLocations :
           dim_call = DimCall("location", location, NoChunk, "ok", 0, NoValue)
    /\ VolIdle
    /\ SolverIdle
    /\ ChunkIdle

\* Division and remainder by 16 neither overflow nor divide by zero.
GetChunkLocation ==
    /\ dim_call.op = "location"
    /\ dim_call' = [dim_call EXCEPT !.op = "get_chunk_location",
                                    !.result = <<get_chunk_location(dim_call.location)>>]
    /\ UNCHANGED <<overflow_checks, dim, vol, vol_sets, vol_call, SolverVars, ChunkVars>>

GetVoxelLocation ==
    /\ dim_call.op = "get_chunk_location"
    /\ dim_call' = [dim_call EXCEPT !.op = "get_voxel_location",
                                    !.result = Append(@, get_voxel_location(dim_call.location))]
    /\ UNCHANGED <<overflow_checks, dim, vol, vol_sets, vol_call, SolverVars, ChunkVars>>

AddrNext == GetChunkLocation \/ GetVoxelLocation

(***************************************************************************)
(* A Chunk as a state machine: Chunk::new(), whose voxels hold the default *)
(* of u32, then up to MaxChunkSets calls of set, then one call of get      *)
(* (which takes &self and leaves the Chunk as it is).  A panic ends the    *)
(* run.                                                                    *)
(***************************************************************************)
\* The number of Chunk::set calls in a run.
MaxChunkSets == 2

\* Voxel locations the calls are made with: corners and an inner cell of the
\* chunk, and locations with one component at 16.
VoxelProbes ==
    {Point3D(0, 0, 0), Point3D(0, 1, 0), Point3D(0, 0, 1), Point3D(3, 2, 1),
     Point3D(CHUNK_X_SIZE - 1, CHUNK_Y_SIZE - 1, CHUNK_Z_SIZE - 1),
     Point3D(CHUNK_X_SIZE, 0, 0), Point3D(0, CHUNK_Y_SIZE, 0),
     Point3D(0, 0, CHUNK_Z_SIZE),
     Point3D(CHUNK_X_SIZE, CHUNK_Y_SIZE - 1, CHUNK_Z_SIZE - 1)}

\* Values written by Chunk::set.
VoxelValues == {1, 2}

ChunkRunning == chunk_call.outcome = "ok" /\ chunk_call.op \in {"new", "set"}

ChunkInit ==
    /\ overflow_checks \in BOOLEAN
    /\ chunk_state = ChunkFromValue(0)
    /\ chunk_call = ChunkCall("new", Origin, 0, "ok", NoValue, 0)
    /\ DimIdle
    /\ VolIdle
    /\ SolverIdle

ChunkGetCall ==
    \E location \in VoxelProbes :
        /\ ChunkRunning
        /\ chunk_call' =
               IF ChunkIndexFaults(location)
               THEN ChunkCall("get", location, 0, "panic: index out of bounds", NoValue,
                              chunk_call.sets)
               ELSE ChunkCall("get", location, 0, "ok", <<ChunkGet(chunk_state, location)>>,
                              chunk_call.sets)
        /\ UNCHANGED <<overflow_checks, dim, dim_call, vol, vol_sets, vol_call, SolverVars,
                       chunk_state>>

ChunkSetCall ==
    \E location \in VoxelProbes, value \in VoxelValues :
        /\ ChunkRunning
        /\ chunk_call.sets < MaxChunkSets
        /\ IF ChunkIndexFaults(location)
           THEN /\ chunk_call' = ChunkCall("set", location, value,
                                           "panic: index out of bounds", NoValue,
                                           chunk_call.sets + 1)
                /\ UNCHANGED chunk_state
           ELSE /\ chunk_call' = ChunkCall("set", location, value, "ok", NoValue,
                                           chunk_call.sets + 1)
                /\ chunk_state' = ChunkSet(chunk_state, location, value)
        /\ UNCHANGED <<overflow_checks, dim, dim_call, vol, vol_sets, vol_call, SolverVars>>

ChunkNext == ChunkGetCall \/ ChunkSetCall

(***************************************************************************)
(* A Volume as a state machine: Volume::new(start, end, 0), then up to     *)
(* MaxSets calls of set, then one call of within_bounds, get or            *)
(* get_location.  These three take &self and leave the Volume as it is,    *)
(* so a run ends with the first of them; a panic ends the run too.         *)
(***************************************************************************)
\* Largest component of a start location, largest extent, and the number of
\* Volume::set calls in a run.
MaxStart == 1
MaxSize == 2
MaxSets == 1

VolumeStarts == {Point3D(x, y, z) : x \in 0 .. MaxStart, y \in 0 .. MaxStart, z \in 0 .. MaxStart}
VolumeSizes == {Point3D(x, y, z) : x \in 0 .. MaxSize, y \in 0 .. MaxSize, z \in 0 .. MaxSize}
\* Locations the calls are made with: inside and outside every such cuboid.
ProbeLocations ==
    {Point3D(x, y, z) : x \in 0 .. MaxStart + MaxSize, y \in 0 .. MaxStart + MaxSize,
                        z \in 0 .. MaxStart + MaxSize}

\* Membership in the cuboid [start_location, end_location): what the
\* properties below mean by inside; no function of the source computes it.
InCuboid(v, location) ==
    /\ v.start_location.x <= location.x /\ location.x < v.end_location.x
    /\ v.start_location.y <= location.y /\ location.y < v.end_location.y
    /\ v.start_location.z <= location.z /\ location.z < v.end_location.z

VolRunning == vol_call.outcome = "ok" /\ vol_call.op \in {"new", "set"}

VolInit ==
    /\ overflow_checks \in BOOLEAN
    /\ \E start \in VolumeStarts, size \in VolumeSizes :
           vol = VolumeNew(start, Point3DAdd(start, size), 0)
    /\ vol_sets = 0
    /\ vol_call = VolCall("new", Origin, 0, 0, "ok", NoValue)
    /\ DimIdle
    /\ SolverIdle
    /\ ChunkIdle

VolumeWithinBounds ==
    \E location \in ProbeLocations :
        /\ VolRunning
        /\ LET outcome == within_bounds_outcome(vol, location)
           IN  vol_call' = VolCall("within_bounds", location, 0, 0, outcome,
                                   IF outcome = "ok" THEN <<within_bounds(vol, location)>>
                                   ELSE NoValue)
        /\ UNCHANGED <<overflow_checks, dim, dim_call, vol, vol_sets, SolverVars, ChunkVars>>

VolumeGet ==
    \E location \in ProbeLocations :
        /\ VolRunning
        /\ LET outcome == volume_access_outcome(vol, location)
           IN  vol_call' = VolCall("get", location, 0, 0, outcome,
                                   IF outcome = "ok" THEN <<volume_get(vol, location)>>
                                   ELSE NoValue)
        /\ UNCHANGED <<overflow_checks, dim, dim_call, vol, vol_sets, SolverVars, ChunkVars>>

VolumeSet ==
    \E location \in ProbeLocations :
        /\ VolRunning
        /\ vol_sets < MaxSets
        /\ LET outcome == volume_access_outcome(vol, location)
           IN  /\ vol_call' = VolCall("set", location, 0, 1, outcome, NoValue)
               /\ vol' = IF outcome = "ok" THEN volume_set(vol, location, 1) ELSE vol
        /\ vol_sets' = vol_sets + 1
        /\ UNCHANGED <<overflow_checks, dim, dim_call, SolverVars, ChunkVars>>

VolumeGetLocation ==
    \E index \in DOMAIN vol.voxels :
        /\ VolRunning
        /\ LET outcome == get_location_outcome(vol, index)
           IN  vol_call' = VolCall("get_location", Origin, index, 0, outcome,
                                   IF outcome = "ok" THEN <<get_location(vol, index)>>
                                   ELSE NoValue)
        /\ UNCHANGED <<overflow_checks, dim, dim_call, vol, vol_sets, SolverVars, ChunkVars>>

VolNext == VolumeWithinBounds \/ VolumeGet \/ VolumeSet \/ VolumeGetLocation

(***************************************************************************)
(* get_djikstra_map as a state machine: the seeding loop, one step per     *)
(* iteration of the while loop, then Volume::new and the loop that writes  *)
(* the field.  A second call on the same input follows the first.          *)
(***************************************************************************)
\* Iterations of the while loop followed in one call.
MaxPops == 8

Air == 1
Stone == 3

\* A region built with Volume::new(Origin, end, stone) and Volume::set(l, air)
\* for the locations l of air, all of them inside the cuboid.
Terrain(end, air) ==
    LET v == VolumeNew(Origin, end, Stone)
    IN  [v EXCEPT !.voxels = [i \in DOMAIN v.voxels |->
            IF \E l \in air : get_index(v, l) = i THEN Air ELSE Stone]]

\* The flat open platform: a solid floor at z = 0 under an open layer at z = 1.
Platform ==
    Terrain(Point3D(2, 2, 2), {Point3D(x, y, 1) : x \in 0 .. 1, y \in 0 .. 1})

\* Caves in solid rock: a 3 x 3 x 3 region whose open cells are any of four
\* cells of its top layer.
CaveCells == {Point3D(1, 1, 2), Point3D(2, 1, 2), Point3D(1, 2, 2), Point3D(0, 2, 2)}
Caves == {Terrain(Point3D(3, 3, 3), air) : air \in SUBSET CaveCells}

\* A region of zero volume.
EmptyRegion == VolumeNew(Origin, Origin, Stone)

\* A region of solid rock that does not start at the origin.
ShiftedRegion == VolumeNew(Point3D(1, 0, 1), Point3D(2, 2, 2), Stone)

Regions == Caves \cup {Platform, EmptyRegion, ShiftedRegion}

\* Seeds: on cave cells, on the platform, and one above both regions.
SeedLocations ==
    {Point3D(1, 1, 2), Point3D(2, 1, 2), Point3D(0, 2, 2), Point3D(1, 1, 1), Point3D(1, 1, 3)}
SeedCosts == {0, 3}
Seeds == {<<l, c>> : l \in SeedLocations, c \in SeedCosts}
\* Seed lists: none, one seed, or two seeds of which the first has cost 0.
SeedLists ==
    {<<>>} \cup {<<a>> : a \in Seeds}
        \cup {<<a, b>> : a \in {s \in Seeds : s[2] = 0}, b \in Seeds}

SolverStart ==
    /\ frontier = EmptyBag
    /\ visited = {}
    /\ pops = 0
    /\ pc = "start"
    /\ potential_map = VolumeNew(Origin, Origin, 0)

SolverInit ==
    /\ overflow_checks \in BOOLEAN
    /\ map \in Regions
    /\ weights \in SeedLists
    /\ SolverStart
    /\ first_result = <<>>
    /\ DimIdle
    /\ VolIdle
    /\ ChunkIdle

OtherVars == <<overflow_checks, dim, dim_call, vol, vol_sets, vol_call, chunk_state, chunk_call>>

\* for (location, weight) in weights.iter() { frontier.push(..) }
InsertWeights ==
    /\ pc = "start"
    /\ frontier' = [n \in {Node(weights[i][1], weights[i][2]) : i \in DOMAIN weights} |->
                       Cardinality({i \in DOMAIN weights :
                                       Node(weights[i][1], weights[i][2]) = n})]
    /\ pc' = "loop"
    /\ UNCHANGED <<OtherVars, map, weights, visited, pops, potential_map, first_result>>

\* One iteration of while frontier.len() > 0.
PopNode ==
    /\ pc = "loop"
    /\ pops < MaxPops
    /\ \E current_node \in PopCandidates(frontier) :
           LET settled == visited \cup {current_node}
               rest == frontier (-) SetToBag({current_node})
           IN  /\ visited' = settled
               /\ IF ExpandPanics(map, settled, current_node)
                  THEN /\ pc' = "panicked"
                       /\ frontier' = rest
                  ELSE /\ pc' = "loop"
                       /\ frontier' = rest (+) SetToBag(
                              {Node(l, WrappingAdd(current_node.cost, 1)) :
                                  l \in PushedLocations(map, settled, current_node)})
    /\ pops' = pops + 1
    /\ UNCHANGED <<OtherVars, map, weights, potential_map, first_result>>

\* A variant whose field starts from the default of u32.
WriteMapFromDefault ==
    /\ pc = "loop"
    /\ frontier = EmptyBag
    /\ LET field == VolumeNew(map.start_location, map.end_location, 0)
       IN  IF \/ overflow_checks /\ VolumeNewOverflows(map.start_location, map.end_location)
              \/ WritePanics(field, visited)
           THEN /\ pc' = "panicked"
                /\ UNCHANGED potential_map
           ELSE /\ pc' = "returned"
                /\ potential_map' \in WrittenFields(field, visited)
    /\ UNCHANGED <<OtherVars, map, weights, frontier, visited, pops, first_result>>

\* After the loop: Volume::new(start, end, u32::max_value()), then
\* potential_map.set(node.location, node.cost) for every node of visited.
WriteMap ==
    /\ pc = "loop"
    /\ frontier = EmptyBag
    /\ LET field == VolumeNew(map.start_location, map.end_location, U32Max)
       IN  IF \/ overflow_checks /\ VolumeNewOverflows(map.start_location, map.end_location)
              \/ WritePanics(field, visited)
           THEN /\ pc' = "panicked"
                /\ UNCHANGED potential_map
           ELSE /\ pc' = "returned"
                /\ potential_map' \in WrittenFields(field, visited)
    /\ UNCHANGED <<OtherVars, map, weights, frontier, visited, pops, first_result>>

\* The caller keeps the field and calls get_djikstra_map on the same input.
CallAgain ==
    /\ pc = "returned"
    /\ first_result = <<>>
    /\ first_result' = <<potential_map>>
    /\ frontier' = EmptyBag
    /\ visited' = {}
    /\ pops' = 0
    /\ pc' = "start"
    /\ potential_map' = VolumeNew(Origin, Origin, 0)
    /\ UNCHANGED <<OtherVars, map, weights>>

SolverNext == InsertWeights \/ PopNode \/ WriteMap \/ CallAgain

vars == <<overflow_checks, dim, dim_call, vol, vol_sets, vol_call,
          map, weights, frontier, visited, pops, pc, potential_map, first_result,
          chunk_state, chunk_call>>

SpecDimension == DimInit /\ [][DimNext]_vars

\* The Dimension as a value of its type: any defined set and any loaded map
\* over a subset of it; a defined location without a loaded chunk is the
\* state load_chunk exists for.  No method of the source builds one (they
\* insert into and remove from both collections together).
ColdDimInit ==
    /\ overflow_checks \in BOOLEAN
    /\ \E defined \in SUBSET ChunkLocations :
           \E loaded \in SUBSET defined :
               \E chunks \in [loaded -> ChunkInputs] :
                   dim = [loaded_chunks |-> chunks, all_chunk_locations |-> defined]
    /\ dim_call = DimCall("new", Point3D(0, 0, 0), NoChunk, "ok", 0, NoValue)
    /\ VolIdle
    /\ SolverIdle
    /\ ChunkIdle

SpecColdDimension == ColdDimInit /\ [][DimNext]_vars

SpecAddressing == AddrInit /\ [][AddrNext]_vars

SpecChunk == ChunkInit /\ [][ChunkNext]_vars

SpecVolume == VolInit /\ [][VolNext]_vars

SpecSolver == SolverInit /\ [][SolverNext]_vars

(***************************************************************************)
(* Properties of the Dimension                                             *)
(***************************************************************************)
\* C4: in every reachable state of a Dimension, every location with a loaded
\* chunk is in the defined set.
C4_LoadedAreDefined == DOMAIN dim.loaded_chunks \subseteq dim.all_chunk_locations

\* A removal has just happened and another chunk is still loaded.
C4_Witness ==
    /\ dim_call.op = "remove_chunk_in_place"
    /\ DOMAIN dim.loaded_chunks # {}
    /\ dim_call.location \notin DOMAIN dim.loaded_chunks

\* C5: get_chunk of a location that is not defined panics with "chunk
\* undefined": it returns no chunk, calls load_chunk zero times and leaves the
\* Dimension as it was.
C5_UndefinedFails ==
    [][(dim_call'.op = "get_chunk" /\ ~chunk_defined(dim, dim_call'.location))
        => /\ dim_call'.outcome = "panic: chunk undefined"
           /\ dim_call'.result = NoChunk
           /\ dim_call'.loads = 0
           /\ dim' = dim]_vars

\* get_chunk has panicked on an undefined location while another is defined.
C5_Witness ==
    /\ dim_call.op = "get_chunk"
    /\ dim_call.outcome = "panic: chunk undefined"
    /\ dim.all_chunk_locations # {}
    /\ ~chunk_defined(dim, dim_call.location)

C7_ReadVoxelFollowsStore ==
    /\ \A g \in GlobalLocations : get_voxel(dim, g).outcome = "panic: chunk undefined"
    /\ [][\A g \in GlobalLocations :
            LET before == get_voxel(dim, g)
                after == get_voxel(dim', g)
                mine == get_chunk_location(g) = dim_call'.location
            IN  /\ (dim_call'.op = "add_chunk_in_place" /\ mine)
                    => /\ after.outcome = "ok"
                       /\ after.value = <<dim_call'.chunk[1].voxels[
                              ChunkGetIndex(get_voxel_location(g))]>>
                /\ (dim_call'.op = "remove_chunk_in_place" /\ mine)
                    => /\ after.outcome = "panic: chunk undefined"
                       /\ after.value = NoValue
                /\ ~(dim_call'.op \in {"add_chunk_in_place", "remove_chunk_in_place"} /\ mine)
                    => /\ after.outcome = before.outcome
                       /\ after.value = before.value
                /\ (dim_call'.op = "get_voxel" /\ dim_call'.location = g)
                    => /\ dim_call'.outcome = before.outcome
                       /\ dim_call'.result = before.value]_vars

\* get_voxel has read, in chunk (1,0,0), the one voxel its chunk had written
\* by Chunk::set.
C7_Witness ==
    /\ dim_call.op = "get_voxel"
    /\ dim_call.location = Point3D(19, 2, 1)
    /\ dim_call.outcome = "ok"
    /\ dim_call.result = <<3>>

\* C11: for every global location g, each component of get_voxel_location(g)
\* is below 16 and get_chunk_location(g) * 16 + get_voxel_location(g) is g,
\* component by component.
C11_AddressRoundTrip ==
    dim_call.op = "get_voxel_location"
        => LET g == dim_call.location
               c == dim_call.result[1]
               v == dim_call.result[2]
           IN  /\ v.x \in 0 .. CHUNK_X_SIZE - 1
               /\ v.y \in 0 .. CHUNK_Y_SIZE - 1
               /\ v.z \in 0 .. CHUNK_Z_SIZE - 1
               /\ c.x * CHUNK_X_SIZE + v.x = g.x
               /\ c.y * CHUNK_Y_SIZE + v.y = g.y
               /\ c.z * CHUNK_Z_SIZE + v.z = g.z

\* A location past the first chunk in every component, off the chunk's corner
\* in two, has been split.
C11_Witness ==
    /\ dim_call.op = "get_voxel_location"
    /\ dim_call.location = Point3D(CHUNK_X_SIZE + 3, CHUNK_Y_SIZE, CHUNK_Z_SIZE + 1)
    /\ dim_call.result = <<Point3D(1, 1, 1), Point3D(3, 0, 1)>>

\* C16: after add_chunk_in_place(c, k) the location c is defined and loaded
\* and holds k, whatever was stored at c before; every other location is as
\* it was; and add_chunk_in_place(c, k) once more leaves the Dimension as it
\* is.
C16_AddIdempotent ==
    [][dim_call'.op = "add_chunk_in_place"
        => LET c == dim_call'.location
               k == dim_call'.chunk[1]
           IN  /\ chunk_defined(dim', c)
               /\ chunk_loaded(dim', c)
               /\ dim'.loaded_chunks[c] = k
               /\ get_chunk(dim', c).chunk = <<k>>
               /\ \A o \in ChunkLocations \ {c} :
                      /\ chunk_defined(dim', o) = chunk_defined(dim, o)
                      /\ chunk_loaded(dim', o) = chunk_loaded(dim, o)
                      /\ chunk_loaded(dim, o) => dim'.loaded_chunks[o] = dim.loaded_chunks[o]
               /\ add_chunk_in_place(dim', c, k) = dim'
               /\ (dim_call.op = "add_chunk_in_place" /\ dim_call.location = c
                      /\ dim_call.chunk = <<k>>) => dim' = dim]_vars

\* A chunk has been added at a location while another location holds a
\* different chunk.
C16_Witness ==
    /\ dim_call.op = "add_chunk_in_place"
    /\ dim_call.location = Point3D(1, 0, 0)
    /\ dim_call.chunk = <<ChunkFromValue(2)>>
    /\ dim.loaded_chunks[Point3D(1, 0, 0)] = ChunkFromValue(2)
    /\ chunk_loaded(dim, Point3D(0, 0, 0))
    /\ dim.loaded_chunks[Point3D(0, 0, 0)] = ChunkFromValue(1)

(***************************************************************************)
(* Properties of the Chunk                                                 *)
(***************************************************************************)
\* A voxel location with every component in [0, 16).
VoxelInRange(location) ==
    /\ location.x \in 0 .. CHUNK_X_SIZE - 1
    /\ location.y \in 0 .. CHUNK_Y_SIZE - 1
    /\ location.z \in 0 .. CHUNK_Z_SIZE - 1

VoxelLocations ==
    {Point3D(x, y, z) : x \in 0 .. CHUNK_X_SIZE - 1, y \in 0 .. CHUNK_Y_SIZE - 1,
                        z \in 0 .. CHUNK_Z_SIZE - 1}

\* C14: on a Chunk, set(l, v) of an in-range location l succeeds, after it
\* get(l) is v and get(m) is what it was for every other in-range location m,
\* and a call of get on an in-range location returns the value last set
\* there.
C14_ChunkSetThenGet ==
    [][/\ (chunk_call'.op = "set" /\ VoxelInRange(chunk_call'.location))
           => /\ chunk_call'.outcome = "ok"
              /\ \A m \in VoxelLocations :
                     ChunkGet(chunk_state', m) =
                         IF m = chunk_call'.location THEN chunk_call'.value
                         ELSE ChunkGet(chunk_state, m)
       /\ (chunk_call'.op = "get" /\ VoxelInRange(chunk_call'.location))
           => /\ chunk_call'.outcome = "ok"
              /\ chunk_state' = chunk_state
              /\ (chunk_call.op = "set" /\ chunk_call.location = chunk_call'.location)
                     => chunk_call'.result = <<chunk_call.value>>
              /\ (chunk_call.op = "set" /\ chunk_call.location # chunk_call'.location
                      /\ VoxelInRange(chunk_call.location) /\ chunk_call.sets = 1)
                     => chunk_call'.result = <<0>>]_vars

\* Two sets at different in-range locations, then a get of the first, which
\* returned the value of the first set.
C14_Witness ==
    /\ chunk_call.op = "get"
    /\ chunk_call.sets = 2
    /\ chunk_call.location = Point3D(0, 1, 0)
    /\ chunk_call.result = <<2>>
    /\ ChunkGet(chunk_state, Point3D(0, 0, 1)) = 1

\* C15: Chunk::get and Chunk::set on a voxel location with a component outside
\* [0, 16) panic with an index fault.
C15_OutOfRangeFaults ==
    (chunk_call.op \in {"get", "set"} /\ ~VoxelInRange(chunk_call.location))
        => chunk_call.outcome = "panic: index out of bounds"

(***************************************************************************)
(* Properties of the Volume                                                *)
(***************************************************************************)
\* C8: for a location outside [start_location, end_location), within_bounds
\* returns false and get and set panic.
C8_OutsideRejected ==
    ~InCuboid(vol, vol_call.location)
        => /\ (vol_call.op = "within_bounds" /\ vol_call.outcome = "ok")
                => vol_call.result = <<FALSE>>
           /\ vol_call.op \in {"get", "set"} => vol_call.outcome # "ok"

\* C9: get_index maps the locations of [start_location, end_location)
\* one-to-one into [0, len): a call of within_bounds on a location of the
\* cuboid returns true, get and set on it succeed, and after set(l, 1) on the
\* fresh Volume the location l reads 1 and every other location of the cuboid
\* still reads 0.
C9_CuboidIndexed ==
    InCuboid(vol, vol_call.location)
        => /\ vol_call.op = "within_bounds" => vol_call.result = <<TRUE>>
           /\ vol_call.op \in {"get", "set"} => vol_call.outcome = "ok"
           /\ (vol_call.op = "set" /\ vol_call.outcome = "ok" /\ vol_sets = 1)
                => \A l \in ProbeLocations :
                       InCuboid(vol, l)
                           => /\ get_index(vol, l) < VecLen(vol.voxels)
                              /\ volume_get(vol, l) = (IF l = vol_call.location THEN 1 ELSE 0)

\* C10: get_index(get_location(i)) = i for every index i below the length.
C10_IndexRoundTrip ==
    (vol_call.op = "get_location" /\ vol_call.outcome = "ok")
        => get_index(vol, vol_call.result[1]) = vol_call.index

(***************************************************************************)
(* Properties of get_djikstra_map                                          *)
(***************************************************************************)
\* The cells of the cuboid [start_location, end_location).
CuboidCells(m) ==
    {Point3D(x, y, z) : x \in m.start_location.x .. m.end_location.x - 1,
                        y \in m.start_location.y .. m.end_location.y - 1,
                        z \in m.start_location.z .. m.end_location.z - 1}

\* A cell of the cuboid that is not solid and stands on a solid cell of the
\* cuboid (in a region that starts at the origin get_index reads the cell it
\* is asked for; in one that does not, a cell Volume::get cannot read does
\* not count).
StandsOnFloor(m, l) ==
    /\ InCuboid(m, l)
    /\ l.z >= 1
    /\ InCuboid(m, Point3D(l.x, l.y, l.z - 1))
    /\ within_bounds(m, l)
    /\ within_bounds(m, Point3D(l.x, l.y, l.z - 1))
    /\ ~voxel_solid(volume_get(m, l))
    /\ voxel_solid(volume_get(m, Point3D(l.x, l.y, l.z - 1)))

Abs(i) == IF i < 0 THEN -i ELSE i
SixConnected(a, b) == Abs(a.x - b.x) + Abs(a.y - b.y) + Abs(a.z - b.z) = 1

\* Breadth-first layers from a set of cells through six-connected cells that
\* stand on floor: the pairs <<cell, path length>>.
RECURSIVE PathLengths(_, _, _, _)
PathLengths(m, layer, seen, d) ==
    IF layer = {} THEN {}
    ELSE LET next == {c \in CuboidCells(m) \ seen :
                         StandsOnFloor(m, c) /\ \E q \in layer : SixConnected(q, c)}
         IN  {<<c, d>> : c \in layer} \cup PathLengths(m, next, seen \cup next, d + 1)

\* The costs at which the seeds reach a cell: seed cost plus path length.
CostsFromSeeds(m, ws, cell) ==
    UNION {{ws[i][2] + e[2] :
                e \in {f \in PathLengths(m, {ws[i][1]}, {ws[i][1]}, 0) : f[1] = cell}} :
              i \in DOMAIN ws}

Least(costs) == CHOOSE c \in costs : \A o \in costs : c <= o

\* The field the search is meant to return at a cell.
ShortestCost(m, ws, cell) ==
    IF CostsFromSeeds(m, ws, cell) = {} THEN U32Max
    ELSE Least(CostsFromSeeds(m, ws, cell))

\* C1: with a single seed of cost 0 on a cell that stands on floor, the field
\* returned holds at every cell of the region the length of the shortest
\* six-connected path from the seed, and u32::MAX at every cell no such path
\* reaches (every cell without a solid floor among them).
C1_SingleSeedField ==
    (/\ pc = "returned"
     /\ Len(weights) = 1
     /\ weights[1][2] = 0
     /\ StandsOnFloor(map, weights[1][1]))
        => \A c \in CuboidCells(map) :
               volume_get(potential_map, c) = ShortestCost(map, weights, c)

\* C2: with two or more seeds inside the region whose costs differ, the field
\* returned holds at every cell some seed reaches, seeds' own cells included,
\* the least of seed cost plus path length.
C2_MultiSeedField ==
    (/\ pc = "returned"
     /\ Len(weights) >= 2
     /\ \A i \in DOMAIN weights : InCuboid(map, weights[i][1])
     /\ \A i, j \in DOMAIN weights : i # j => weights[i][2] # weights[j][2])
        => \A c \in CuboidCells(map) :
               CostsFromSeeds(map, weights, c) # {}
                   => volume_get(potential_map, c) = ShortestCost(map, weights, c)

\* C3: a second call of get_djikstra_map on the same region and seed list
\* returns the field the first call returned.
C3_SameFieldTwice ==
    (pc = "returned" /\ first_result # <<>>) => potential_map = first_result[1]

\* The nodes the seeding loop pushes.
SeedNodes == {Node(weights[i][1], weights[i][2]) : i \in DOMAIN weights}

\* C12: a call whose seeds all lie outside the region's cuboid (in a region of
\* zero volume every seed does) does not panic, and the field it returns holds
\* u32::MAX in every cell.
C12_OutsideSeedSentinel ==
    (/\ pc \in {"returned", "panicked"}
     /\ weights # <<>>
     /\ \A i \in DOMAIN weights : ~InCuboid(map, weights[i][1]))
        => /\ pc = "returned"
           /\ \A i \in DOMAIN potential_map.voxels : potential_map.voxels[i] = U32Max

C17_NoSeedsAllSentinel ==
    (weights = <<>> /\ pc \in {"returned", "panicked"})
        => /\ pc = "returned"
           /\ potential_map.start_location = map.start_location
           /\ potential_map.end_location = map.end_location
           /\ potential_map.x_size = map.x_size
           /\ potential_map.y_size = map.y_size
           /\ potential_map.z_size = map.z_size
           /\ DOMAIN potential_map.voxels = DOMAIN map.voxels
           /\ \A i \in DOMAIN potential_map.voxels : potential_map.voxels[i] = U32Max

\* A call without seeds has returned the field of a region of two cells that
\* starts away from the origin.
C17_Witness ==
    /\ pc = "returned"
    /\ weights = <<>>
    /\ pops = 0
    /\ map = ShiftedRegion
    /\ potential_map.voxels = [i \in 0 .. 1 |-> U32Max]

\* C18: each location is settled at most once: visited never holds two nodes
\* of one location with different costs, and the field returned holds at a
\* settled location of the cuboid the least cost popped for that location.
C18_SettledOnce ==
    /\ \A n, o \in visited : n.location = o.location => n.cost = o.cost
    /\ pc = "returned"
           => \A n \in visited :
                  InCuboid(map, n.location)
                      => volume_get(potential_map, n.location)
                             = Least({o.cost : o \in {q \in visited : q.location = n.location}})

\* The coordinates the solver makes by subtracting 1 from a zero component
\* when it expands a node at this location: the x - 1, y - 1 and z - 1
\* neighbours, and the cell below a neighbour at z = 0, which is_traversable
\* computes and tests once the neighbour itself is within bounds.
WrappedFrom(m, location) ==
    {Point3DSub(location, d) :
        d \in {u \in {Point3D(1, 0, 0), Point3D(0, 1, 0), Point3D(0, 0, 1)} :
                  Point3DSubOverflows(location, u)}}
        \cup {location_underneath(l) :
                 l \in {q \in {Neighbours(location)[i] : i \in 1 .. 6} :
                           SubOverflows(q.z, 1) /\ within_bounds(m, q)}}

\* C19: in a build where the subtraction wraps, no coordinate made by
\* subtracting 1 from a zero component while a node is expanded is accepted
\* by within_bounds of the region.
C19_WrappedRejected ==
    ~overflow_checks
        => \A n \in visited :
               \A l \in WrappedFrom(map, n.location) : ~within_bounds(map, l)

\* C20: when every seed lies inside the cuboid, every settled location lies
\* inside the cuboid, and every cost in the field returned was settled for a
\* location of the cuboid that has the flat index of the cell holding it.
C20_SettledInsideCuboid ==
    (\A i \in DOMAIN weights : InCuboid(map, weights[i][1]))
        => /\ \A n \in visited : InCuboid(map, n.location)
           /\ pc = "returned"
                  => \A i \in DOMAIN potential_map.voxels :
                         potential_map.voxels[i] # U32Max
                             => \E n \in visited :
                                    /\ InCuboid(map, n.location)
                                    /\ get_index(potential_map, n.location) = i
                                    /\ n.cost = potential_map.voxels[i]

====
